---- MODULE Spec2Model ----
(***************************************************************************)
(* Model of the roboclaw motor adapter (src/src/roboclaw.py): the class    *)
(* ViamRoboclaw, its configuration life cycle (new / validate_config /     *)
(* reconfigure) and its motor operations, together with the calls they     *)
(* make on the serial command port (the Roboclaw object).                  *)
(*                                                                         *)
(* Python floats are modelled as exact rationals <<n, d>> (d > 0, lowest   *)
(* terms); math.inf and -math.inf are <<1, 0>> and <<-1, 0>>.  int(x) is   *)
(* truncation toward zero.                                                 *)
(*                                                                         *)
(* A port call reports failure through the status it returns (PortStatus); *)
(* the controller's own progress on a bounded move is the variable move.   *)
(***************************************************************************)
EXTENDS Integers, Sequences, FiniteSets, TLC

VARIABLES
    cfg,                 \* cfg[i]: the fields reconfigure stored in instance i, or NoCfg
    conns,               \* conns[i]: connections instance i opened and has not closed
    position_reporting,  \* the class attribute Motor.Properties.position_reporting
    pc,                  \* where the handler that is running stands: "idle", "poll", "sleep"
    call,                \* the handler that runs, or ran last: arguments, port calls, outcome
    move                 \* the controller's progress on the bounded move that the go_for
                         \* in call commanded: "idle", "accepted", "running", "done", "aborted"

vars == <<cfg, conns, position_reporting, pc, call, move>>

----------------------------------------------------------------------------
(* Rational arithmetic *)

RECURSIVE GCD(_, _)
GCD(a, b) == IF b = 0 THEN a ELSE GCD(b, a % b)

AbsInt(n) == IF n < 0 THEN -n ELSE n

\* n / d with d # 0, in lowest terms with a positive denominator
Rat(n, d) ==
    LET g == GCD(AbsInt(n), AbsInt(d))
        s == IF d < 0 THEN -1 ELSE 1
    IN  <<(s * n) \div g, (s * d) \div g>>

FromInt(n) == <<n, 1>>
Zero == <<0, 1>>
PosInf == <<1, 0>>
NegInf == <<-1, 0>>

RMul(a, b) == Rat(a[1] * b[1], a[2] * b[2])
RDiv(a, b) == Rat(a[1] * b[2], a[2] * b[1])
RSub(a, b) == Rat(a[1] * b[2] - b[1] * a[2], a[2] * b[2])
RAbs(a) == <<AbsInt(a[1]), a[2]>>
RLt(a, b) == a[1] * b[2] < b[1] * a[2]
RGt(a, b) == RLt(b, a)
RMin(a, b) == IF RLt(b, a) THEN b ELSE a
RMax(a, b) == IF RGt(b, a) THEN b ELSE a

\* Python int(x): the integer part, rounded toward zero
Trunc(a) == IF a[1] >= 0 THEN a[1] \div a[2] ELSE -((-a[1]) \div a[2])

----------------------------------------------------------------------------
(* Module constants, roboclaw.py lines 24-27 *)

max_rpm == 250
minutes_to_ms == 60000
valid_baud_rates == {460800, 230400, 115200, 57600, 38400, 19200, 9600, 2400}
pwm_scale_constant == 32767

----------------------------------------------------------------------------
(* Bounded inputs *)

Inst == {1, 2}

NoCfg == [none |-> TRUE]

Config(ch, path, addr, tpr, baud) ==
    [motor_channel |-> ch, serial_path |-> path, address |-> addr,
     ticks_per_rotation |-> tpr, serial_baud_rate |-> baud]

\* The configurations a host may hand over: four that follow the documented
\* ranges, and variants of the first with one field out of range.
GoodConfigs ==
    { Config(FromInt(1), "/dev/ttyACM0", 0, 490, 38400),
      Config(FromInt(2), "/dev/ttyACM0", 128, 490, 38400),
      Config(FromInt(1), "/dev/ttyACM0", 135, 0, 38400),
      Config(FromInt(2), "/dev/ttyACM0", 0, 0, 38400) }

OddConfigs ==
    { Config(FromInt(0), "/dev/ttyACM0", 128, 490, 38400),
      Config(FromInt(3), "/dev/ttyACM0", 128, 490, 38400),
      Config(<<3, 2>>, "/dev/ttyACM0", 128, 490, 38400),
      Config(FromInt(1), "", 128, 490, 38400),
      Config(FromInt(1), "/dev/ttyACM0", 127, 490, 38400),
      Config(FromInt(1), "/dev/ttyACM0", 136, 490, 38400),
      Config(FromInt(1), "/dev/ttyACM0", 128, -490, 38400),
      Config(FromInt(1), "/dev/ttyACM0", 128, 490, 31250) }

Configs == GoodConfigs \cup OddConfigs

\* The configurations the instances hold when the motor operations are studied
MotorConfigs ==
    GoodConfigs \cup
    { Config(<<3, 2>>, "/dev/ttyACM0", 128, 490, 38400),
      Config(FromInt(3), "/dev/ttyACM0", 128, 490, 38400),
      Config(FromInt(1), "/dev/ttyACM0", 128, -490, 38400) }

\* The configurations of the second instance in that study: channel 2 of the
\* board, with and without an encoder
PeerConfigs ==
    { Config(FromInt(2), "/dev/ttyACM0", 128, 490, 38400),
      Config(FromInt(2), "/dev/ttyACM0", 0, 0, 38400) }

\* most connections one instance opens in a run
MaxOpens == 2

\* Arguments of the motor operations
RPMs == {FromInt(-300), FromInt(-100), Zero, <<1, 20>>, FromInt(100), FromInt(300)}
Revolutions == {FromInt(-10), Zero, FromInt(10)}
Positions == {Zero, FromInt(10)}
Powers == {FromInt(-2), FromInt(-1), <<-1, 2>>, Zero, <<2, 5>>, FromInt(1), <<3, 2>>}
Offsets == {FromInt(-2), Zero, <<1, 2>>}

\* Encoder counts the controller may report for a channel
EncoderCounts == {0, 4900}

\* Duty values the controller may report for a channel
DutyReadings == {0, 16000}

\* most duty reads of one completion wait that find the motor still moving
MaxPolls == 1

----------------------------------------------------------------------------
(* The record of a handler run *)

\* result: "ok", "running", or the class of the exception the handler raised;
\* port_failed: a port call of the handler reported a failure (status 0 / False)
Call(i, op) ==
    [inst |-> i, op |-> op, rpm |-> Zero, arg |-> Zero, config |-> NoCfg,
     warning |-> "", log |-> <<>>, wait |-> Zero, result |-> "ok", value |-> "None",
     port_failed |-> FALSE]

NoCall == Call(0, "none")

\* Port calls
OpenCmd(path, baud) == [cmd |-> "Open", path |-> path, baud |-> baud]
DutyCmd(ch, addr, duty) == [cmd |-> "Duty", ch |-> ch, addr |-> addr, duty |-> duty]
SpeedDistanceCmd(ch, addr, speed, distance, buffer) ==
    [cmd |-> "SpeedDistance", ch |-> ch, addr |-> addr,
     speed |-> speed, distance |-> distance, buffer |-> buffer]
ReadPWMsCmd(addr, pwm1, pwm2) == [cmd |-> "ReadPWMs", addr |-> addr, pwm1 |-> pwm1, pwm2 |-> pwm2]
ReadEncCmd(ch, addr, count) == [cmd |-> "ReadEnc", ch |-> ch, addr |-> addr, count |-> count]
SetEncCmd(ch, addr, cnt) == [cmd |-> "SetEnc", ch |-> ch, addr |-> addr, cnt |-> cnt]

----------------------------------------------------------------------------
(* Configuration life cycle *)

validate_baud_rates(baudRate) == \E val \in valid_baud_rates : val = baudRate

\* validate_config: TRUE when it returns, FALSE when it raises ValidationError
validate_config(c) ==
    /\ ~ (RLt(c.motor_channel, FromInt(1)) \/ RGt(c.motor_channel, FromInt(2)))
    /\ ~ (c.serial_path = "")
    /\ ~ (c.address # 0 /\ (c.address < 128 \/ c.address > 135))
    /\ ~ (c.ticks_per_rotation < 0)
    /\ validate_baud_rates(c.serial_baud_rate)

\* the fields reconfigure assigns
Stored(c) ==
    [serial_path |-> c.serial_path,
     ticks_per_rotation |-> c.ticks_per_rotation,
     baud_rate |-> c.serial_baud_rate,
     motor_channel |-> c.motor_channel,
     address |-> IF c.address = 0 THEN 128 ELSE c.address]

\* reconfigure: stores the fields, creates a Roboclaw on the port and opens it
reconfigure(i, c, op) ==
    /\ cfg' = [cfg EXCEPT ![i] = Stored(c)]
    /\ conns' = [conns EXCEPT ![i] = @ + 1]
    /\ call' = [Call(i, op) EXCEPT !.config = c,
                    !.log = <<OpenCmd(c.serial_path, c.serial_baud_rate)>>]
    /\ UNCHANGED <<position_reporting, pc, move>>

\* ViamRoboclaw.new: validate_config, then reconfigure
New(i, c) ==
    /\ pc = "idle"
    /\ cfg[i] = NoCfg
    /\ IF validate_config(c)
       THEN reconfigure(i, c, "new")
       ELSE /\ call' = [Call(i, "new") EXCEPT !.config = c, !.result = "ValidationError"]
            /\ UNCHANGED <<cfg, conns, position_reporting, pc, move>>

\* ViamRoboclaw.reconfigure called on a constructed instance
Reconfigure(i, c) ==
    /\ pc = "idle"
    /\ cfg[i] # NoCfg
    /\ conns[i] < MaxOpens
    /\ reconfigure(i, c, "reconfigure")

\* get_properties: props is the class Motor.Properties, not an instance of it
GetProperties(i) ==
    /\ pc = "idle"
    /\ cfg[i] # NoCfg
    /\ position_reporting' =
          IF cfg[i].ticks_per_rotation # 0 THEN "True" ELSE position_reporting
    /\ call' = [Call(i, "get_properties") EXCEPT !.value = position_reporting']
    /\ UNCHANGED <<cfg, conns, pc, move>>

----------------------------------------------------------------------------
(* Helpers of the motor operations *)

\* check_speed: the warning logged for rpm ("" when there is none)
check_speed(rpm, max) ==
    LET speed == RAbs(rpm) IN
    IF RLt(speed, <<1, 10>>) THEN "nearly 0"
    ELSE IF max > 0 /\ RGt(speed, RSub(FromInt(max), <<1, 10>>)) THEN "nearly max"
    ELSE ""

\* the clamp of go_for and set_rpm: min(rpm, max_rpm), then max(rpm, -max_rpm)
clamp_rpm(rpm) ==
    IF RGt(RAbs(rpm), FromInt(max_rpm))
    THEN RMax(RMin(rpm, FromInt(max_rpm)), FromInt(-max_rpm))
    ELSE rpm

\* go_for_math, defined for rpm # 0 (revolutions/rpm raises ZeroDivisionError otherwise)
go_for_math(rpm, revolutions) ==
    LET dir == IF RLt(RMul(rpm, revolutions), Zero) THEN -1 ELSE 1 IN
    [power_pct |-> RMul(RDiv(RAbs(rpm), FromInt(max_rpm)), FromInt(dir)),
     wait_dur |-> RMul(RAbs(RDiv(revolutions, rpm)), FromInt(minutes_to_ms))]

\* go_for without its test for a zero-length move
zero_revolutions_m(revolutions) == FALSE

\* go_for's first test: revolutions == 0
zero_revolutions(revolutions) == revolutions = Zero

\* set_rpm's target distance with the test rpm <= 0
open_distance_m(rpm) == IF RGt(rpm, Zero) THEN PosInf ELSE NegInf

\* set_rpm's target distance: math.inf, or -math.inf when rpm < 0
open_distance(rpm) == IF RLt(rpm, Zero) THEN NegInf ELSE PosInf

\* rpm * ticks_per_rotation / 60.0
ticks_per_second(rpm, tpr) == RDiv(RMul(rpm, FromInt(tpr)), FromInt(60))

\* the clamp of set_power without its upper branch
clamp_power_m(power) == IF RLt(power, FromInt(-1)) THEN FromInt(-1) ELSE power

\* the clamp of set_power
clamp_power(power) ==
    IF RGt(power, FromInt(1)) THEN FromInt(1)
    ELSE IF RLt(power, FromInt(-1)) THEN FromInt(-1)
    ELSE power

\* Python round(x): the nearest integer, a tie going to the even one
Round(a) ==
    LET below == a[1] \div a[2]
        twice == 2 * (a[1] - below * a[2])
    IN  IF twice < a[2] THEN below
        ELSE IF twice > a[2] THEN below + 1
        ELSE IF below % 2 = 0 THEN below ELSE below + 1

\* the duty value with round in the place of int
duty_units_m(power) == Round(RMul(power, FromInt(pwm_scale_constant)))

\* the duty value set_power sends: int(power * pwm_scale_constant)
duty_units(power) == Trunc(RMul(power, FromInt(pwm_scale_constant)))

\* set_power on an instance with fields c: the port calls it makes
set_power(c, power) ==
    LET duty == duty_units(clamp_power(power)) IN
    IF c.motor_channel = FromInt(1) THEN <<DutyCmd(1, c.address, duty)>>
    ELSE IF c.motor_channel = FromInt(2) THEN <<DutyCmd(2, c.address, duty)>>
    ELSE <<>>

\* stop: set_power(0)
stop(c) == set_power(c, Zero)

\* is_powered returning the raw duty, the division by pwm_scale_constant left out
is_powered_raw_m(c, pwm1, pwm2) ==
    IF c.motor_channel = FromInt(1) THEN <<pwm1 # 0, FromInt(pwm1)>>
    ELSE IF c.motor_channel = FromInt(2) THEN <<pwm2 # 0, FromInt(pwm2)>>
    ELSE <<FALSE, Zero>>

\* is_powered looking at the other channel's duty
is_powered_m(c, pwm1, pwm2) ==
    IF c.motor_channel = FromInt(1) THEN <<pwm2 # 0, Rat(pwm2, pwm_scale_constant)>>
    ELSE IF c.motor_channel = FromInt(2) THEN <<pwm1 # 0, Rat(pwm1, pwm_scale_constant)>>
    ELSE <<FALSE, Zero>>

\* is_powered, given the duties ReadPWMs returned: <<powered, power fraction>>
is_powered(c, pwm1, pwm2) ==
    IF c.motor_channel = FromInt(1) THEN <<pwm1 # 0, Rat(pwm1, pwm_scale_constant)>>
    ELSE IF c.motor_channel = FromInt(2) THEN <<pwm2 # 0, Rat(pwm2, pwm_scale_constant)>>
    ELSE <<FALSE, Zero>>

\* is_moving returning the tuple of is_powered, which is always true
is_moving_m(c, pwm1, pwm2) == is_powered(c, pwm1, pwm2) # <<>>

\* is_moving: the first component of what is_powered returns
is_moving(c, pwm1, pwm2) == is_powered(c, pwm1, pwm2)[1]

\* reset_zero_position's encoder value with the sign kept
new_ticks_m(offset, tpr) == RMul(offset, FromInt(tpr))

\* reset_zero_position's encoder value: -1 * offset * ticks_per_rotation
new_ticks(offset, tpr) == RMul(RMul(FromInt(-1), offset), FromInt(tpr))

\* What ReadEncM1 / ReadEncM2 return: a (status, count, status byte) tuple
ReadEncResult(count) == [tuple |-> <<1, count, 0>>]

\* A Python number, as opposed to a tuple
Number(x) == [num |-> x]

\* x / y for a Python value x and a float y: the quotient, or the exception raised
true_div(x, y) ==
    IF "tuple" \in DOMAIN x THEN [result |-> "TypeError", value |-> "None"]
    ELSE IF y = Zero THEN [result |-> "ZeroDivisionError", value |-> "None"]
    ELSE [result |-> "ok", value |-> RDiv(x.num, y)]

\* get_position when the encoder holds count: ticks is the tuple read on
\* channel 1 or 2 and stays the number 0 on any other channel
get_position(c, count) ==
    LET onChannel == c.motor_channel = FromInt(1) \/ c.motor_channel = FromInt(2)
        ticks == IF onChannel THEN ReadEncResult(count) ELSE Number(Zero)
        quotient == true_div(ticks, FromInt(c.ticks_per_rotation))
    IN  [log |-> IF onChannel
                 THEN <<ReadEncCmd(Trunc(c.motor_channel), c.address, count)>>
                 ELSE <<>>,
         result |-> quotient.result,
         value |-> quotient.value]

----------------------------------------------------------------------------
(* Motor operations *)

Ready(i) == pc = "idle" /\ cfg[i] # NoCfg

\* the handler returns or raises without having commanded a bounded move
Finish(c) == /\ call' = c
             /\ move' = "idle"
             /\ UNCHANGED <<cfg, conns, position_reporting, pc>>

\* What a port call reports: TRUE when the controller acknowledged it, FALSE
\* (a False result, a 0 status) when the exchange failed
PortStatus == BOOLEAN

\* the Python value of a port call's status
StatusValue(ok) == IF ok THEN "True" ELSE "False"

\* "return self.roboclaw.<command>(...)": the handler hands back the status of
\* the one port call it made, or None when it made none
Returns(c) ==
    IF c.log = <<>>
    THEN Finish(c)
    ELSE \E ok \in PortStatus :
            Finish([c EXCEPT !.port_failed = ~ ok, !.value = StatusValue(ok)])

\* the statuses the port calls in cmds can report together: TRUE when each was
\* acknowledged (and when there is none), FALSE when one of them failed
Statuses(cmds) == IF cmds = <<>> THEN {TRUE} ELSE PortStatus

SetPower(i, power) ==
    /\ Ready(i)
    /\ Returns([Call(i, "set_power") EXCEPT !.arg = power, !.log = set_power(cfg[i], power)])

Stop(i) ==
    /\ Ready(i)
    /\ Returns([Call(i, "stop") EXCEPT !.log = stop(cfg[i])])

SetRPM(i, rpm) ==
    /\ Ready(i)
    /\ LET c == cfg[i]
           base == [Call(i, "set_rpm") EXCEPT !.rpm = rpm, !.warning = check_speed(rpm, max_rpm)]
           tps == ticks_per_second(rpm, c.ticks_per_rotation)
           dist == open_distance(rpm)
       IN  IF c.ticks_per_rotation = 0
           THEN Returns([base EXCEPT
                    !.log = set_power(c, RDiv(clamp_rpm(rpm), FromInt(max_rpm)))])
           ELSE IF c.motor_channel = FromInt(1)
           THEN Returns([base EXCEPT
                    !.log = <<SpeedDistanceCmd(1, c.address, tps, dist, 1)>>])
           ELSE IF c.motor_channel = FromInt(2)
           THEN Returns([base EXCEPT
                    !.log = <<SpeedDistanceCmd(2, c.address, tps, dist, 1)>>])
           ELSE Returns(base)

\* go_for up to its first wait: the sleep (no encoder) or the completion poll
GoFor(i, rpm, revolutions) ==
    /\ Ready(i)
    /\ LET c == cfg[i]
           base == [Call(i, "go_for") EXCEPT !.rpm = rpm, !.arg = revolutions]
           warned == [base EXCEPT !.warning = check_speed(rpm, max_rpm)]
           rpm2 == clamp_rpm(rpm)
           ticks == RMul(revolutions, FromInt(c.ticks_per_rotation))
           tps == ticks_per_second(rpm, c.ticks_per_rotation)
           sd(ch) == SpeedDistanceCmd(ch, c.address, FromInt(Trunc(tps)),
                                      FromInt(Trunc(ticks)), 1)
           powered == set_power(c, go_for_math(rpm2, revolutions).power_pct)
           commanded == IF c.motor_channel = FromInt(1) THEN <<sd(1)>>
                        ELSE IF c.motor_channel = FromInt(2) THEN <<sd(2)>>
                        ELSE <<>>
       IN  IF zero_revolutions(revolutions)
           THEN Finish([base EXCEPT !.result = "ViamError"])
           ELSE IF c.ticks_per_rotation = 0
           THEN IF rpm2 = Zero
                THEN Finish([warned EXCEPT !.result = "ZeroDivisionError"])
                ELSE /\ \E ok \in Statuses(powered) :
                          call' = [warned EXCEPT
                            !.log = powered,
                            !.wait = go_for_math(rpm2, revolutions).wait_dur,
                            !.result = "running",
                            !.port_failed = ~ ok]
                     /\ pc' = "sleep"
                     /\ move' = "idle"
                     /\ UNCHANGED <<cfg, conns, position_reporting>>
           ELSE /\ \E ok \in Statuses(commanded) :
                     /\ call' = [warned EXCEPT
                            !.log = commanded,
                            !.result = "running",
                            !.port_failed = ~ ok]
                     /\ move' = IF commanded # <<>> /\ ok THEN "accepted" ELSE "idle"
                /\ pc' = "poll"
                /\ UNCHANGED <<cfg, conns, position_reporting>>

\* go_for after time.sleep(wait_dur / 1000): stop and return
Wake ==
    /\ pc = "sleep"
    /\ \E ok \in Statuses(stop(cfg[call.inst])) :
          call' = [call EXCEPT !.log = @ \o stop(cfg[call.inst]), !.result = "ok",
                               !.value = IF stop(cfg[call.inst]) = <<>> THEN "None"
                                         ELSE StatusValue(ok),
                               !.port_failed = @ \/ ~ ok]
    /\ pc' = "idle"
    /\ UNCHANGED <<cfg, conns, position_reporting, move>>

\* The controller as the bounded move of go_for needs it: it accepts the
\* SpeedDistance command, starts driving the motor some time later, and
\* clears the duty by itself once the distance is covered.
DeviceStart ==
    /\ move = "accepted"
    /\ move' = "running"
    /\ UNCHANGED <<cfg, conns, position_reporting, pc, call>>

DeviceFinish ==
    /\ move = "running"
    /\ move' = "done"
    /\ UNCHANGED <<cfg, conns, position_reporting, pc, call>>

\* the duty of the instance's channel among the duties ReadPWMs returned
ChannelDuty(c, pwm1, pwm2) == IF c.motor_channel = FromInt(1) THEN pwm1 ELSE pwm2

\* the duties an acknowledged ReadPWMs can return: not zero on the channel
\* while the controller drives the move, zero once the move is done, and what
\* earlier commands left there before the move has started
DeviceReports(c, pwm1, pwm2) ==
    /\ move = "running" => ChannelDuty(c, pwm1, pwm2) # 0
    /\ move = "done" => ChannelDuty(c, pwm1, pwm2) = 0

PollsSoFar == Cardinality({k \in 1..Len(call.log) : call.log[k].cmd = "ReadPWMs"})

\* one turn of "while await self.is_moving()": a duty read, then either
\* another turn or stop and return
Poll(pwm1, pwm2) ==
    /\ pc = "poll"
    /\ LET c == cfg[call.inst]
           read == ReadPWMsCmd(c.address, pwm1, pwm2)
           moving == is_moving(c, pwm1, pwm2)
       IN  \E okRead \in PortStatus :
             /\ okRead => DeviceReports(c, pwm1, pwm2)
             /\ IF moving
                THEN /\ PollsSoFar < MaxPolls
                     /\ call' = [call EXCEPT !.log = Append(@, read),
                                             !.port_failed = @ \/ ~ okRead]
                     /\ pc' = "poll"
                     /\ move' = move
                ELSE \E okStop \in Statuses(stop(c)) :
                     /\ call' = [call EXCEPT
                            !.log = Append(@, read) \o stop(c),
                            !.result = "ok",
                            !.value = IF stop(c) = <<>> THEN "None" ELSE StatusValue(okStop),
                            !.port_failed = @ \/ ~ okRead \/ ~ okStop]
                     /\ pc' = "idle"
                     /\ move' = IF move \in {"accepted", "running"} /\ stop(c) # <<>> /\ okStop
                                THEN "aborted" ELSE move
    /\ UNCHANGED <<cfg, conns, position_reporting>>

\* go_to: get_position raises on channels 1 and 2; where it returns, the call
\* go_for(rpm, revolutions, extra) passes a third positional argument to a
\* method whose extra is keyword-only, which raises TypeError
GoTo(i, rpm, position_revolutions, count) ==
    /\ Ready(i)
    /\ LET c == cfg[i]
           base == [Call(i, "go_to") EXCEPT !.rpm = rpm, !.arg = position_revolutions]
           pos == get_position(c, count)
       IN  IF c.ticks_per_rotation = 0
           THEN Finish([base EXCEPT !.result = "ViamError"])
           ELSE \E ok \in Statuses(pos.log) :
                IF pos.result # "ok"
                THEN Finish([base EXCEPT !.log = pos.log, !.result = pos.result,
                                         !.port_failed = ~ ok])
                ELSE Finish([base EXCEPT !.log = pos.log, !.result = "TypeError",
                                         !.port_failed = ~ ok])

GetPosition(i, count) ==
    /\ Ready(i)
    /\ LET pos == get_position(cfg[i], count)
       IN  \E ok \in Statuses(pos.log) :
             Finish([Call(i, "get_position") EXCEPT
                       !.log = pos.log, !.result = pos.result, !.value = pos.value,
                       !.port_failed = ~ ok])

ResetZeroPosition(i, offset) ==
    /\ Ready(i)
    /\ LET c == cfg[i]
           base == [Call(i, "reset_zero_position") EXCEPT !.arg = offset]
           ticks == new_ticks(offset, c.ticks_per_rotation)
       IN  IF c.ticks_per_rotation = 0
           THEN Finish([base EXCEPT !.result = "NotSupportedError"])
           ELSE IF c.motor_channel = FromInt(1)
           THEN Returns([base EXCEPT !.log = <<SetEncCmd(1, c.address, ticks)>>])
           ELSE IF c.motor_channel = FromInt(2)
           THEN Returns([base EXCEPT !.log = <<SetEncCmd(2, c.address, ticks)>>])
           ELSE Returns(base)

\* is_powered called by the host: one ReadPWMs, whose status is dropped
IsPowered(i, pwm1, pwm2) ==
    /\ Ready(i)
    /\ \E ok \in PortStatus :
          Finish([Call(i, "is_powered") EXCEPT
                    !.log = <<ReadPWMsCmd(cfg[i].address, pwm1, pwm2)>>,
                    !.value = is_powered(cfg[i], pwm1, pwm2),
                    !.port_failed = ~ ok])

\* is_moving called by the host
IsMoving(i, pwm1, pwm2) ==
    /\ Ready(i)
    /\ \E ok \in PortStatus :
          Finish([Call(i, "is_moving") EXCEPT
                    !.log = <<ReadPWMsCmd(cfg[i].address, pwm1, pwm2)>>,
                    !.value = is_moving(cfg[i], pwm1, pwm2),
                    !.port_failed = ~ ok])

----------------------------------------------------------------------------
(* Specification of the configuration life cycle: a fresh process in which   *)
(* the host constructs instances, reconfigures them and asks for their       *)
(* properties.                                                               *)

Init ==
    /\ cfg = [i \in Inst |-> NoCfg]
    /\ conns = [i \in Inst |-> 0]
    /\ position_reporting = "unset"
    /\ pc = "idle"
    /\ call = NoCall
    /\ move = "idle"

Next ==
    \/ \E i \in Inst, c \in Configs : New(i, c)
    \/ \E i \in Inst, c \in Configs : Reconfigure(i, c)
    \/ \E i \in Inst : GetProperties(i)

Spec == Init /\ [][Next]_vars

----------------------------------------------------------------------------
(* Specification of the motor operations: both instances are constructed;    *)
(* the first holds the fields of a configuration that new accepted, or,      *)
(* after one reconfigure, of any configuration; the second is on channel 2, *)
(* with or without an encoder.  Handlers run on one event                    *)
(* loop and none of them suspends (time.sleep and the port calls block), so  *)
(* a handler starts only when no other is running.                           *)

InitMotor ==
    /\ \E c1 \in MotorConfigs, c2 \in PeerConfigs :
          /\ cfg = (1 :> Stored(c1)) @@ (2 :> Stored(c2))
          /\ conns = (1 :> IF validate_config(c1) THEN 1 ELSE 2)
                  @@ (2 :> IF validate_config(c2) THEN 1 ELSE 2)
    /\ position_reporting = "unset"
    /\ pc = "idle"
    /\ call = NoCall
    /\ move = "idle"

NextMotor ==
    \/ \E i \in Inst, power \in Powers : SetPower(i, power)
    \/ \E i \in Inst : Stop(i)
    \/ \E i \in Inst, rpm \in RPMs : SetRPM(i, rpm)
    \/ \E i \in Inst, rpm \in RPMs, revolutions \in Revolutions : GoFor(i, rpm, revolutions)
    \/ Wake
    \/ \E pwm1 \in DutyReadings, pwm2 \in DutyReadings : Poll(pwm1, pwm2)
    \/ \E i \in Inst, rpm \in RPMs, pos \in Positions, count \in EncoderCounts :
          GoTo(i, rpm, pos, count)
    \/ \E i \in Inst, count \in EncoderCounts : GetPosition(i, count)
    \/ \E i \in Inst, offset \in Offsets : ResetZeroPosition(i, offset)
    \/ \E i \in Inst, pwm1 \in DutyReadings, pwm2 \in DutyReadings : IsPowered(i, pwm1, pwm2)
    \/ \E i \in Inst, pwm1 \in DutyReadings, pwm2 \in DutyReadings : IsMoving(i, pwm1, pwm2)
    \/ DeviceStart
    \/ DeviceFinish

SpecMotor == InitMotor /\ [][NextMotor]_vars

\* a turn of the completion poll that reads duty 0 on the instance's channel
ZeroRead ==
    /\ pc = "poll"
    /\ \E pwm1 \in DutyReadings, pwm2 \in DutyReadings :
        /\ ChannelDuty(cfg[call.inst], pwm1, pwm2) = 0
        /\ Poll(pwm1, pwm2)

\* go_for alone, on the same instances: its two waits and the controller
NextGoFor ==
    \/ \E i \in Inst, rpm \in RPMs, revolutions \in Revolutions : GoFor(i, rpm, revolutions)
    \/ Wake
    \/ \E pwm1 \in DutyReadings, pwm2 \in DutyReadings : Poll(pwm1, pwm2)
    \/ DeviceStart
    \/ DeviceFinish

\* go_for with a controller that makes progress on a bounded move and a poll
\* loop that keeps running (it spins without a pause) until the controller
\* has reported duty 0
SpecGoForFair ==
    /\ InitMotor /\ [][NextGoFor]_vars
    /\ WF_vars(DeviceStart)
    /\ WF_vars(DeviceFinish)
    /\ WF_vars(ZeroRead)

----------------------------------------------------------------------------
(* Properties *)

\* the instance the handler in call runs on, and its fields
Self == cfg[call.inst]
Channel == Trunc(Self.motor_channel)

\* The instance commands one of the controller's two channels.  The motor
\* operations compare motor_channel with 1 and with 2 and do nothing on any
\* other value; which values an instance can hold is the subject of C9 and C10.
HasChannel == call.inst \in Inst /\ Self.motor_channel \in {FromInt(1), FromInt(2)}

Finished == pc = "idle"

\* C1: go_for(rpm, 0) raises ViamError("Cannot move motor for 0 revolutions"),
\* the adapter's invalid-argument error, whatever rpm is and whether or not
\* ticks_per_rotation is 0, and it has made no port call when it raises.
C1_ZeroRevolutionsRejected ==
    (call.op = "go_for" /\ call.arg = Zero) =>
        /\ Finished
        /\ call.result = "ViamError"
        /\ call.log = <<>>

C1_Witness ==
    /\ call.op = "go_for" /\ call.arg = Zero /\ call.rpm = FromInt(100)
    /\ Self.ticks_per_rotation = 0
    /\ call.result = "ViamError"

\* C2 (as claimed): with ticks_per_rotation = 0, go_to and reset_zero_position
\* both raise the not-supported error, NotSupportedError, and have made no
\* port call when they raise.
C2_BothNotSupported ==
    (call.op \in {"go_to", "reset_zero_position"} /\ Self.ticks_per_rotation = 0) =>
        /\ Finished
        /\ call.result = "NotSupportedError"
        /\ call.log = <<>>

\* the duty of set_power(1) for power > 1, of set_power(-1) for power < -1,
\* and the duties of set_power(1), set_power(-1) and set_power(0) themselves
ExpectedDuty(power) ==
    IF RGt(power, FromInt(1)) \/ power = FromInt(1) THEN 32767
    ELSE IF RLt(power, FromInt(-1)) \/ power = FromInt(-1) THEN -32767
    ELSE 0

DutiesInRange ==
    \A k \in 1..Len(call.log) :
        call.log[k].cmd = "Duty" =>
            /\ call.log[k].duty >= -32767
            /\ call.log[k].duty <= 32767

\* C3: on an instance that commands channel 1 or 2, set_power(p) makes exactly
\* one port call, a Duty on that channel; for p > 1 it carries 32767, the value
\* of set_power(1), for p < -1 it carries -32767, the value of set_power(-1);
\* stop makes the call of set_power(0), a Duty of 0; and every duty any handler
\* sends lies in [-32767, 32767].
C3_SetPowerClamped ==
    /\ DutiesInRange
    /\ (call.op = "set_power" /\ HasChannel) =>
          /\ Len(call.log) = 1
          /\ call.log[1].cmd = "Duty"
          /\ call.log[1].ch = Channel
          /\ call.log[1].addr = Self.address
          /\ (RGt(RAbs(call.arg), FromInt(1)) \/ call.arg \in {FromInt(-1), Zero, FromInt(1)})
                => call.log[1].duty = ExpectedDuty(call.arg)
          /\ call.result = "ok"
    /\ (call.op = "stop" /\ HasChannel) =>
          /\ call.log = <<DutyCmd(Channel, Self.address, 0)>>
          /\ call.result = "ok"

C3_Witness ==
    /\ call.op = "set_power" /\ HasChannel
    /\ call.arg = <<3, 2>>
    /\ call.log = <<DutyCmd(Channel, Self.address, 32767)>>

IsMovingRead(e) ==
    /\ e.cmd = "ReadPWMs"
    /\ e.addr = Self.address
    /\ (IF Channel = 1 THEN e.pwm1 ELSE e.pwm2) # 0

IsZeroRead(e) ==
    /\ e.cmd = "ReadPWMs"
    /\ e.addr = Self.address
    /\ (IF Channel = 1 THEN e.pwm1 ELSE e.pwm2) = 0

\* C4: with ticks_per_rotation > 0, on an instance that commands channel 1 or
\* 2, go_for(rpm, revolutions) with revolutions # 0 makes these port calls in
\* this order: one SpeedDistance on the channel with the integer part of
\* rpm * ticks_per_rotation / 60 as speed, the integer part of
\* revolutions * ticks_per_rotation as distance and 1 as last argument (490
\* ticks, 100 rpm, 10 revolutions: 816 and 4900); then duty reads that all find
\* the channel's duty non-zero; then one read that finds it zero; then one Duty
\* of 0, after which, and only then, it returns.
C4_EncoderGoForSequence ==
    (/\ call.op = "go_for" /\ HasChannel
     /\ Self.ticks_per_rotation > 0 /\ call.arg # Zero) =>
        LET n == Len(call.log)
            tpr == Self.ticks_per_rotation
        IN  /\ n >= 1
            /\ call.log[1].cmd = "SpeedDistance"
            /\ call.log[1].ch = Channel
            /\ call.log[1].addr = Self.address
            /\ call.log[1].speed = FromInt(Trunc(Rat(call.rpm[1] * tpr, call.rpm[2] * 60)))
            /\ call.log[1].distance = FromInt(Trunc(Rat(call.arg[1] * tpr, call.arg[2])))
            /\ call.log[1].buffer = 1
            /\ (tpr = 490 /\ call.rpm = FromInt(100) /\ call.arg = FromInt(10)) =>
                  /\ call.log[1].speed = FromInt(816)
                  /\ call.log[1].distance = FromInt(4900)
            /\ IF ~ Finished
               THEN /\ call.result = "running"
                    /\ \A k \in 2..n : IsMovingRead(call.log[k])
               ELSE /\ call.result = "ok"
                    /\ n >= 3
                    /\ call.log[n] = DutyCmd(Channel, Self.address, 0)
                    /\ IsZeroRead(call.log[n - 1])
                    /\ \A k \in 2..(n - 2) : IsMovingRead(call.log[k])

C4_Witness ==
    /\ call.op = "go_for" /\ HasChannel /\ Finished
    /\ Self.ticks_per_rotation = 490
    /\ call.rpm = FromInt(100) /\ call.arg = FromInt(10)
    /\ Len(call.log) >= 4
    /\ call.log[1].speed = FromInt(816)
    /\ call.result = "ok"

\* the duty and the wait the time-estimated go_for is expected to use
ClampedRPM(rpm) ==
    IF RGt(rpm, FromInt(250)) THEN FromInt(250)
    ELSE IF RLt(rpm, FromInt(-250)) THEN FromInt(-250)
    ELSE rpm

SignOf(x) == IF x < 0 THEN -1 ELSE 1

\* sign(rpm * revolutions) * |rpm| / 250, as a rational
PowerFraction(rpm, revolutions) ==
    Rat(SignOf(rpm[1] * revolutions[1]) * AbsInt(rpm[1]), rpm[2] * 250)

\* |revolutions / rpm| * 60000, as a rational (rpm # 0)
DurationMillis(rpm, revolutions) ==
    Rat(AbsInt(revolutions[1]) * rpm[2] * 60000, revolutions[2] * AbsInt(rpm[1]))

TimedGoForAsClaimed(rpm, revolutions) ==
    /\ call.result = "ok"
    /\ call.log = <<DutyCmd(Channel, Self.address,
                            Trunc(RMul(PowerFraction(ClampedRPM(rpm), revolutions),
                                       FromInt(32767)))),
                    DutyCmd(Channel, Self.address, 0)>>
    /\ ClampedRPM(rpm) # Zero =>
          call.wait = DurationMillis(ClampedRPM(rpm), revolutions)
    /\ (rpm = FromInt(100) /\ revolutions = FromInt(10)) =>
          /\ PowerFraction(ClampedRPM(rpm), revolutions) = <<2, 5>>
          /\ call.wait = FromInt(6000)

\* C5 (as claimed): with ticks_per_rotation = 0, on an instance that commands
\* channel 1 or 2, every go_for(rpm, revolutions) with revolutions # 0 that has
\* ended has returned after exactly two port calls, a Duty for
\* sign(rpm * revolutions) * |rpm| / 250 of the clamped rpm and a Duty of 0,
\* with a wait of |revolutions / rpm| * 60000 ms in between.
C5_TimedGoForSequence ==
    (/\ call.op = "go_for" /\ HasChannel /\ Finished
     /\ Self.ticks_per_rotation = 0 /\ call.arg # Zero) =>
        TimedGoForAsClaimed(call.rpm, call.arg)

\* the part of C5 the code does keep: the same, for rpm # 0
C5_TimedGoForNonZeroRPM ==
    (/\ call.op = "go_for" /\ HasChannel /\ Finished
     /\ Self.ticks_per_rotation = 0 /\ call.arg # Zero /\ call.rpm # Zero) =>
        TimedGoForAsClaimed(call.rpm, call.arg)

\* C6: on an instance that commands channel 1 or 2, set_rpm(rpm) makes exactly
\* one port call.  With ticks_per_rotation = 0 it is a Duty for the fraction
\* clamp(rpm, -250, 250) / 250, which lies in [-1, 1].  With
\* ticks_per_rotation > 0 it is a SpeedDistance whose speed is
\* ticks_per_rotation * rpm / 60, not clamped when |rpm| > 250, whose distance
\* is +infinity when rpm >= 0 and -infinity otherwise, and whose last argument
\* is 1.
C6_SetRPMByMode ==
    (call.op = "set_rpm" /\ HasChannel) =>
        LET tpr == Self.ticks_per_rotation
            fraction == RDiv(ClampedRPM(call.rpm), FromInt(250))
        IN  /\ call.result = "ok"
            /\ tpr = 0 =>
                  /\ ~ RLt(fraction, FromInt(-1)) /\ ~ RGt(fraction, FromInt(1))
                  /\ call.log = <<DutyCmd(Channel, Self.address,
                                          Trunc(RMul(fraction, FromInt(32767))))>>
            /\ tpr > 0 =>
                  call.log = <<SpeedDistanceCmd(Channel, Self.address,
                                   Rat(tpr * call.rpm[1], 60 * call.rpm[2]),
                                   IF call.rpm[1] >= 0 THEN PosInf ELSE NegInf, 1)>>

C6_Witness ==
    /\ call.op = "set_rpm" /\ HasChannel
    /\ Self.ticks_per_rotation = 490
    /\ call.rpm = FromInt(300)
    /\ call.log = <<SpeedDistanceCmd(Channel, Self.address, FromInt(2450), PosInf, 1)>>

C6_Witness_NoEncoder ==
    /\ call.op = "set_rpm" /\ HasChannel
    /\ Self.ticks_per_rotation = 0
    /\ call.rpm = FromInt(-300)
    /\ call.log = <<DutyCmd(Channel, Self.address, -32767)>>

\* C7 (as claimed): with ticks_per_rotation > 0, on an instance that commands
\* channel 1 or 2, go_to(rpm, target) reads the encoder once and then makes
\* the calls of go_for(|rpm|, target - position): a SpeedDistance with a
\* non-negative speed, the completion reads and the stop; it does not end in
\* an error.
C7_GoToDelegates ==
    (call.op = "go_to" /\ HasChannel /\ Self.ticks_per_rotation > 0) =>
        /\ call.result \in {"running", "ok"}
        /\ Len(call.log) >= 2
        /\ call.log[1].cmd = "ReadEnc"
        /\ call.log[1].ch = Channel
        /\ call.log[2].cmd = "SpeedDistance"
        /\ call.log[2].speed[1] >= 0
        /\ Finished => call.log[Len(call.log)] = DutyCmd(Channel, Self.address, 0)

\* C8 (as claimed): on an instance whose ticks_per_rotation is in its
\* documented range (>= 0), get_properties reports position reporting as true
\* exactly when ticks_per_rotation is greater than 0, whatever was constructed,
\* reconfigured or queried before; in particular it does not report true for
\* an instance without encoder.
C8_PropertiesFollowEncoder ==
    (call.op = "get_properties" /\ Self.ticks_per_rotation >= 0) =>
        ((call.value = "True") <=> (Self.ticks_per_rotation > 0))

\* the documented ranges of a configuration
InRanges(c) ==
    /\ c.motor_channel \in {FromInt(1), FromInt(2)}
    /\ c.serial_path # ""
    /\ c.address = 0 \/ c.address \in 128..135
    /\ c.ticks_per_rotation >= 0
    /\ c.serial_baud_rate \in {2400, 9600, 19200, 38400, 57600, 115200, 230400, 460800}

\* C9 (as claimed): new accepts a configuration exactly when it is in the
\* documented ranges; otherwise it raises ValidationError, and then it has
\* neither created nor opened a connection.
C9_ValidationExact ==
    call.op = "new" =>
        /\ (call.result = "ok") <=> InRanges(call.config)
        /\ (call.result # "ok") =>
              /\ call.result = "ValidationError"
              /\ call.log = <<>>
              /\ cfg[call.inst] = NoCfg
              /\ conns[call.inst] = 0

\* C10 (as claimed): the fields an instance holds always satisfy
\* motor_channel in {1, 2}, address in 128..135 and ticks_per_rotation >= 0.
C10_StoredConfigInRanges ==
    \A i \in Inst :
        cfg[i] # NoCfg =>
            /\ cfg[i].motor_channel \in {FromInt(1), FromInt(2)}
            /\ cfg[i].address \in 128..135
            /\ cfg[i].ticks_per_rotation >= 0

\* the operations of the motor interface that talk to the controller
MotorOps ==
    {"set_power", "set_rpm", "go_for", "go_to", "is_powered", "is_moving",
     "get_position", "reset_zero_position", "stop"}

\* C11 (as claimed): when a port call of set_power, set_rpm, go_for, go_to,
\* is_powered, get_position or reset_zero_position has failed, the operation
\* does not end as a success: it raises, or at the least hands the failure
\* status back to its caller.
C11_PortFailureSurfaces ==
    (Finished /\ call.op \in MotorOps /\ call.port_failed) =>
        \/ call.result # "ok"
        \/ call.value = "False"

\* C12 (as claimed): the speed advisories never block.  For every rpm, the
\* ones below 0.1 in magnitude (0 included) and the ones near or over the
\* ceiling too, set_rpm(rpm) and go_for(rpm, revolutions # 0) go on to make
\* their port calls, with and without an encoder, and raise nothing.
C12_AdvisoriesNeverBlock ==
    (/\ call.op \in {"set_rpm", "go_for"}
     /\ HasChannel
     /\ call.op = "go_for" => call.arg # Zero) =>
        /\ call.result \in {"ok", "running"}
        /\ call.log # <<>>

\* C13 (as claimed): with an encoder (ticks_per_rotation > 0) get_position
\* reads the encoder count of its channel and returns count /
\* ticks_per_rotation; without one (ticks_per_rotation = 0) a guard ends it in
\* a defined error of the adapter, not in a division by zero or another
\* arithmetic fault.
C13_GetPositionByMode ==
    (/\ call.op = "get_position"
     /\ HasChannel
     /\ Self.ticks_per_rotation >= 0
     /\ ~ call.port_failed) =>
        IF Self.ticks_per_rotation > 0
        THEN /\ call.result = "ok"
             /\ Len(call.log) = 1
             /\ call.log[1].cmd = "ReadEnc"
             /\ call.log[1].ch = Channel
             /\ call.value = Rat(call.log[1].count, Self.ticks_per_rotation)
        ELSE call.result \in {"NotSupportedError", "ViamError"}

\* the duty of the instance's channel in the one ReadPWMs of the handler
DutyRead == IF Channel = 1 THEN call.log[1].pwm1 ELSE call.log[1].pwm2

\* C14: every is_powered and is_moving makes one ReadPWMs of its own at the
\* instance's address (nothing is cached) and answers from the duty of its
\* own channel alone: is_powered returns (duty # 0, duty / 32767) and
\* is_moving returns duty # 0, whatever the other channel's duty is.
C14_IsPoweredFreshRead ==
    (call.op \in {"is_powered", "is_moving"} /\ HasChannel) =>
        /\ Finished
        /\ call.result = "ok"
        /\ Len(call.log) = 1
        /\ call.log[1].cmd = "ReadPWMs"
        /\ call.log[1].addr = Self.address
        /\ call.op = "is_powered" =>
              call.value = <<DutyRead # 0, Rat(DutyRead, 32767)>>
        /\ call.op = "is_moving" => call.value = (DutyRead # 0)

\* is_powered on channel 1 finds duty 0 there while channel 2 is driven
C14_Witness ==
    /\ call.op = "is_powered" /\ HasChannel /\ Channel = 1
    /\ call.log[1].pwm1 = 0 /\ call.log[1].pwm2 = 16000
    /\ call.value = <<FALSE, Zero>>

\* is_moving on channel 2 finds it driven while channel 1 is at rest
C14_Witness_Moving ==
    /\ call.op = "is_moving" /\ HasChannel /\ Channel = 2
    /\ call.log[1].pwm1 = 0 /\ call.log[1].pwm2 = 16000
    /\ call.value = TRUE

\* C15: with an encoder (ticks_per_rotation > 0) reset_zero_position(offset)
\* makes exactly one port call, SetEncM1 or SetEncM2 for the instance's own
\* channel at its address, with the value -(offset * ticks_per_rotation), and
\* raises nothing.
C15_ResetZeroSetsEncoder ==
    (/\ call.op = "reset_zero_position"
     /\ HasChannel
     /\ Self.ticks_per_rotation > 0) =>
        /\ Finished
        /\ call.result = "ok"
        /\ call.log = <<SetEncCmd(Channel, Self.address,
                          RSub(Zero, RMul(call.arg, FromInt(Self.ticks_per_rotation))))>>

\* reset_zero_position(0.5) on channel 2 with 490 ticks per rotation sets the
\* encoder to -245
C15_Witness ==
    /\ call.op = "reset_zero_position" /\ HasChannel /\ Channel = 2
    /\ call.arg = <<1, 2>>
    /\ Self.ticks_per_rotation = 490
    /\ call.log = <<SetEncCmd(2, 128, FromInt(-245))>>

\* a handler of another instance starts (and, making no wait, completes)
OtherInstanceRuns ==
    \E j \in Inst \ {call.inst} :
        \/ Stop(j)
        \/ \E power \in Powers : SetPower(j, power)
        \/ \E pwm1 \in DutyReadings, pwm2 \in DutyReadings : IsPowered(j, pwm1, pwm2)

\* C16 (as claimed): the wait of go_for without an encoder is a cooperative
\* suspension: while one instance is in that wait, before its stop, an
\* operation of another instance of the same process can start and complete.
C16_WaitIsCooperative ==
    (pc = "sleep" /\ call.op = "go_for") => ENABLED OtherInstanceRuns

\* the completion wait ends in this step
LeavesPoll == pc = "poll" /\ pc' # "poll"

\* the duty read that the step appends to the port log
ReadOfStep == call'.log[Len(call.log) + 1]

\* the go_for has stopped the motor and returned
StoppedAndReturned ==
    /\ Finished
    /\ call.op = "go_for"
    /\ call.result = "ok"
    /\ HasChannel => call.log[Len(call.log)] = DutyCmd(Channel, Self.address, 0)

\* C17: when the controller comes to report duty 0, a go_for with an encoder
\* that is in its completion wait eventually sends the stop and returns; and
\* the wait is left in no other way than by a read of duty 0 on the
\* instance's channel (there is no timeout and no limit on the polls).
C17_EncoderGoForReturns ==
    /\ (pc = "poll") ~> StoppedAndReturned
    /\ [][(LeavesPoll /\ HasChannel) =>
            /\ ReadOfStep.cmd = "ReadPWMs"
            /\ (IF Channel = 1 THEN ReadOfStep.pwm1 ELSE ReadOfStep.pwm2) = 0
            /\ call'.log = Append(call.log, ReadOfStep)
                              \o <<DutyCmd(Channel, Self.address, 0)>>
            /\ call'.result = "ok"]_vars

\* a go_for whose move the controller completed: a read that found the motor
\* driven, then the read of duty 0, then the stop
C17_Witness ==
    /\ StoppedAndReturned /\ HasChannel
    /\ move = "done"
    /\ Len(call.log) = 4
    /\ call.log[2].cmd = "ReadPWMs" /\ call.log[3].cmd = "ReadPWMs"
    /\ ~ call.port_failed

\* C18 (as claimed): an instance holds at most one open connection at any
\* time, and a constructed instance, however often it was reconfigured,
\* holds exactly one: each reconfigure closes the connection of the previous
\* configuration.
C18_OneOpenConnection ==
    \A i \in Inst :
        /\ conns[i] <= 1
        /\ cfg[i] # NoCfg => conns[i] = 1

\* C19 (as claimed): a go_for with an encoder sends its stop only after the
\* controller has finished the bounded move.  With a controller that starts
\* driving the motor some time after it accepted the command, and with every
\* port call acknowledged, the poll still cannot read duty 0 and stop the
\* motor before the move has started or while it is short of its distance.
C19_StopOnlyAfterMoveDone ==
    (/\ Finished
     /\ call.op = "go_for"
     /\ HasChannel
     /\ Self.ticks_per_rotation > 0
     /\ call.result = "ok"
     /\ ~ call.port_failed) =>
        move = "done"

\* the power fraction set_power works with: its argument brought into [-1, 1]
ClampedFraction == RMax(FromInt(-1), RMin(FromInt(1), call.arg))

\* the exact product ClampedFraction * 32767
ScaledFraction == RMul(ClampedFraction, FromInt(32767))

\* the duty that the set_power in call sent
DutySent == call.log[1].duty

\* C20 (as claimed): the duty set_power sends for the clamped fraction p is
\* round(p * 32767): 13107 for p = 0.4.
C20_DutyIsRounded ==
    (call.op = "set_power" /\ HasChannel) =>
        /\ Len(call.log) = 1
        /\ call.log[1].cmd = "Duty"
        /\ DutySent = Round(ScaledFraction)

\* C20 (amended): the duty set_power sends for the clamped fraction p is
\* int(p * 32767), the product cut off toward zero: the integer d of the sign
\* of the product with |d| <= |p * 32767| < |d| + 1; 13106 for p = 0.4 and
\* -16383 for p = -0.5.
C20_DutyIsTruncated ==
    (call.op = "set_power" /\ HasChannel) =>
        /\ Len(call.log) = 1
        /\ call.log[1].cmd = "Duty"
        /\ DutySent \in -32767..32767
        /\ DutySent * ScaledFraction[1] >= 0
        /\ AbsInt(DutySent) * ScaledFraction[2] <= AbsInt(ScaledFraction[1])
        /\ AbsInt(ScaledFraction[1]) < (AbsInt(DutySent) + 1) * ScaledFraction[2]

\* set_power(0.4) on channel 1 sends duty 13106
C20_Witness ==
    /\ call.op = "set_power" /\ HasChannel /\ Channel = 1
    /\ call.arg = <<2, 5>>
    /\ call.log = <<DutyCmd(1, Self.address, 13106)>>

====
